---------------------------- MODULE Spec2Model ----------------------------
(***************************************************************************)
(* A model of keras_core/operations/function.py: the graph analysis        *)
(* (map_graph, _build_map, _build_map_helper) and the Function object      *)
(* built on it (__init__, call, compute_output_spec, _run_through_graph,   *)
(* _assert_input_compatibility).                                           *)
(*                                                                         *)
(* A graph is a finite set of nodes.  Node n is one application of the     *)
(* operation nodeOp[n] to the tensors nodeIn[n]; it produces the single    *)
(* tensor n.  Tensor 0 is a tensor whose _keras_history names no           *)
(* operation.  Python dicts are modelled with their insertion order.       *)
(***************************************************************************)
EXTENDS Integers, Sequences, FiniteSets, TLC

\* ------------------------------------------------------------------ bounds
MaxNodes == 4
MaxOps == 3
MaxRank == 2
MaxDim == 2
MaxVal == 2

Nodes == 1..MaxNodes
Ops == 1..MaxOps
NoOp == 0
RootTensor == 0
Tensors == 0..MaxNodes
Names == {"a", "b", "c", "d"}
IdStrs == <<"id1", "id2", "id3", "id4", "id5", "id6">>
None == 0
Dims == 0..MaxDim
Dtypes == {"float32", "int32"}

VARIABLES
    nodeOp,       \* node -> its operation (node.operation)
    nodeIn,       \* node -> its input tensors (node.input_tensors)
    opName,       \* operation -> operation.name
    srcSpec,      \* tensor -> [shape, dtype] of a tensor no operation computed
    inputs,       \* the flattened inputs given to Function(...)
    outputs,      \* the flattened outputs given to Function(...)
    args,         \* the flattened inputs the caller passes to call / compute_output_spec
    phase,        \* "defined", "constructed" (a Function exists) or "failed"
    error,        \* the error Function.__init__ raised, "none" when it raised nothing
    mg,           \* the locals of the last map_graph run
    fn,           \* the analysis stored on the Function
    callRes,      \* what Function.call returned or raised
    specRes,      \* what Function.compute_output_spec returned or raised
    replay,       \* the _run_through_graph invocations in progress, each with its locals
    dfs           \* a _build_map run in progress: its collections and its call stack

vars == <<nodeOp, nodeIn, opName, srcSpec, inputs, outputs, args, phase, error,
          mg, fn, callRes, specRes, replay, dfs>>
graphVars == <<nodeOp, nodeIn, opName, srcSpec, inputs, outputs, args>>

\* ----------------------------------------------------------------- helpers
Max(a, b) == IF a >= b THEN a ELSE b

Range(s) == {s[i] : i \in 1..Len(s)}

SeqContains(s, x) == \E i \in 1..Len(s) : s[i] = x

Count(s, x) == Cardinality({i \in 1..Len(s) : s[i] = x})

Reverse(s) == [i \in 1..Len(s) |-> s[Len(s) + 1 - i]]

\* A Python dict: its keys in insertion order, and its values.
EmptyDict == [keys |-> <<>>, val |-> <<>>]

DictHas(d, k) == k \in DOMAIN d.val

DictGet(d, k, default) == IF k \in DOMAIN d.val THEN d.val[k] ELSE default

DictSet(d, k, v) ==
    [keys |-> IF k \in DOMAIN d.val THEN d.keys ELSE Append(d.keys, k),
     val |-> (k :> v) @@ d.val]

\* ------------------------------------------------------ tensors and nodes
\* tensor._keras_history[0]: the operation that produced the tensor, or none.
HistoryOp(t) == IF t = RootTensor THEN NoOp ELSE nodeOp[t]

\* operation._inbound_nodes: the applications of the operation, in creation order.
RECURSIVE NodesOfOp(_, _)
NodesOfOp(o, n) ==
    IF n > MaxNodes THEN <<>>
    ELSE IF nodeOp[n] = o THEN <<n>> \o NodesOfOp(o, n + 1)
    ELSE NodesOfOp(o, n + 1)

InboundNodes(o) == NodesOfOp(o, 1)

IndexOf(s, x) == CHOOSE i \in 1..Len(s) : s[i] = x /\ \A j \in 1..(i - 1) : s[j] # x

\* tensor._keras_history[1]: the 0-based index of the producing node.
HistoryNodeIndex(t) == IndexOf(InboundNodes(nodeOp[t]), t) - 1

IsInput(n) == nodeIn[n] = <<>>

ParentNodes(n) ==
    LET ts == nodeIn[n]
        kept == SelectSeq(ts, LAMBDA t : HistoryOp(t) # NoOp)
    IN [i \in 1..Len(kept) |->
           InboundNodes(HistoryOp(kept[i]))[HistoryNodeIndex(kept[i]) + 1]]

make_node_key(op_name, node_index) == [name |-> op_name, ib |-> node_index]

IdStr(o) == IdStrs[o]


\* ------------------------------------------------------------- _build_map
\* _build_map_helper: the state is the four collections the helper is handed,
\* plus the ValueError it raised (cycle), which unwinds the whole recursion.
RECURSIVE build_map_helper(_, _)
RECURSIVE build_map_tensors(_, _, _)
\* The helper without its cycle check: a node in progress is taken as done.
build_map_helper_no_cycle_check(tensor, st) ==
    IF st.cycle \/ HistoryOp(tensor) = NoOp THEN st
    ELSE
        LET operation == HistoryOp(tensor)
            node == InboundNodes(operation)[HistoryNodeIndex(tensor) + 1]
        IN  IF node \in st.finished_nodes \/ node \in st.nodes_in_progress THEN st
            ELSE
                LET st1 == [st EXCEPT
                               !.operation_indices =
                                   IF DictHas(@, operation) THEN @
                                   ELSE DictSet(@, operation, Len(@.keys)),
                               !.nodes_in_progress = @ \cup {node}]
                    st2 == IF IsInput(node) THEN st1
                           ELSE build_map_tensors(nodeIn[node], 1, st1)
                IN  [st2 EXCEPT
                        !.finished_nodes = @ \cup {node},
                        !.nodes_in_progress = @ \ {node},
                        !.nodes_in_decreasing_depth = Append(@, node)]

\* The helper with the node appended when it is entered, not when it is done.
build_map_helper_on_entry(tensor, st) ==
    IF st.cycle \/ HistoryOp(tensor) = NoOp THEN st
    ELSE
        LET operation == HistoryOp(tensor)
            node == InboundNodes(operation)[HistoryNodeIndex(tensor) + 1]
        IN  IF node \in st.finished_nodes THEN st
            ELSE IF node \in st.nodes_in_progress
                 THEN [st EXCEPT !.cycle = TRUE, !.cycle_tensor = tensor]
            ELSE
                LET st1 == [st EXCEPT
                               !.operation_indices =
                                   IF DictHas(@, operation) THEN @
                                   ELSE DictSet(@, operation, Len(@.keys)),
                               !.nodes_in_progress = @ \cup {node},
                               !.nodes_in_decreasing_depth = Append(@, node)]
                    st2 == IF IsInput(node) THEN st1
                           ELSE build_map_tensors(nodeIn[node], 1, st1)
                IN  IF st2.cycle THEN st2
                    ELSE [st2 EXCEPT
                             !.finished_nodes = @ \cup {node},
                             !.nodes_in_progress = @ \ {node}]

build_map_helper(tensor, st) ==
    IF st.cycle \/ HistoryOp(tensor) = NoOp THEN st
    ELSE
        LET operation == HistoryOp(tensor)
            node == InboundNodes(operation)[HistoryNodeIndex(tensor) + 1]
        IN  IF node \in st.finished_nodes THEN st
            ELSE IF node \in st.nodes_in_progress
                 THEN [st EXCEPT !.cycle = TRUE, !.cycle_tensor = tensor]
            ELSE
                LET st1 == [st EXCEPT
                               !.operation_indices =
                                   IF DictHas(@, operation) THEN @
                                   ELSE DictSet(@, operation, Len(@.keys)),
                               !.nodes_in_progress = @ \cup {node}]
                    st2 == IF IsInput(node) THEN st1
                           ELSE build_map_tensors(nodeIn[node], 1, st1)
                IN  IF st2.cycle THEN st2
                    ELSE [st2 EXCEPT
                             !.finished_nodes = @ \cup {node},
                             !.nodes_in_progress = @ \ {node},
                             !.nodes_in_decreasing_depth = Append(@, node)]

\* The loop over a sequence of tensors (node.input_tensors, or the outputs).
build_map_tensors(ts, i, st) ==
    IF i > Len(ts) THEN st
    ELSE build_map_tensors(ts, i + 1, build_map_helper(ts[i], st))

build_map(outs) ==
    build_map_tensors(outs, 1,
        [finished_nodes |-> {}, nodes_in_progress |-> {},
         nodes_in_decreasing_depth |-> <<>>, operation_indices |-> EmptyDict,
         cycle |-> FALSE, cycle_tensor |-> RootTensor])

\* -------------------------------------------------------------- map_graph
\* The loop over node.parent_nodes that raises a dependency to the depth of its
\* consumer, not to one more.
RECURSIVE raise_parents_same_depth(_, _, _, _)
raise_parents_same_depth(deps, i, depth, nodes_depths) ==
    IF i > Len(deps) THEN nodes_depths
    ELSE raise_parents_same_depth(deps, i + 1, depth,
             DictSet(nodes_depths, deps[i],
                     Max(depth, DictGet(nodes_depths, deps[i], 0))))

\* The loop over node.parent_nodes that forgets the depth a dependency has.
RECURSIVE raise_parents_overwrite(_, _, _, _)
raise_parents_overwrite(deps, i, depth, nodes_depths) ==
    IF i > Len(deps) THEN nodes_depths
    ELSE raise_parents_overwrite(deps, i + 1, depth,
             DictSet(nodes_depths, deps[i], depth + 1))

\* The loop body over node.parent_nodes: raise the depth of each dependency.
RECURSIVE raise_parents(_, _, _, _)
raise_parents(deps, i, depth, nodes_depths) ==
    IF i > Len(deps) THEN nodes_depths
    ELSE raise_parents(deps, i + 1, depth,
             DictSet(nodes_depths, deps[i],
                     Max(depth + 1, DictGet(nodes_depths, deps[i], 0))))

\* The loop body that records for an operation the depth of the node at hand,
\* whatever depth the operation was seen at before.
assign_depth_no_shared(node, st) ==
    LET depth == DictGet(st.nodes_depths, node, 0)
    IN  [nodes_depths |->
             raise_parents(ParentNodes(node), 1, depth,
                           DictSet(st.nodes_depths, node, depth)),
         operations_depths |-> DictSet(st.operations_depths, nodeOp[node], depth)]

\* One iteration of the loop over reversed(nodes_in_decreasing_depth).
assign_depth(node, st) ==
    LET depth0 == DictGet(st.nodes_depths, node, 0)
        previous_depth == DictGet(st.operations_depths, nodeOp[node], 0)
        depth == Max(depth0, previous_depth)
    IN  [nodes_depths |->
             raise_parents(ParentNodes(node), 1, depth,
                           DictSet(st.nodes_depths, node, depth)),
         operations_depths |-> DictSet(st.operations_depths, nodeOp[node], depth)]

RECURSIVE assign_depths(_, _, _)
assign_depths(ns, i, st) ==
    IF i > Len(ns) THEN st
    ELSE assign_depths(ns, i + 1, assign_depth(ns[i], st))

\* A loop body that leaves an input the traversal did not reach unregistered.
unreached_input_ignored(input_t, st) == st

\* One iteration of the loop over the inputs that handles the inputs the
\* traversal did not reach.
unreached_input(input_t, st) ==
    LET input_operation == HistoryOp(input_t)
    IN  IF input_operation # NoOp /\ ~DictHas(st.operations_depths, input_operation)
        THEN [operations_depths |-> DictSet(st.operations_depths, input_operation, 0),
              operation_indices |-> DictSet(st.operation_indices, input_operation, -1),
              nodes_depths |->
                  DictSet(st.nodes_depths, InboundNodes(input_operation)[1], 0),
              network_nodes |->
                  st.network_nodes \cup {make_node_key(opName[input_operation], 0)}]
        ELSE st

RECURSIVE unreached_inputs(_, _, _)
unreached_inputs(ins, i, st) ==
    IF i > Len(ins) THEN st
    ELSE unreached_inputs(ins, i + 1, unreached_input(ins[i], st))

\* collections.defaultdict(list) filled in the dict's iteration order.
by_depth(d) ==
    [k \in {d.val[x] : x \in DOMAIN d.val} |->
        SelectSeq(d.keys, LAMBDA x : d.val[x] = k)]

\* depth_keys.sort(reverse=True)
RECURSIVE sorted_reverse(_)
sorted_reverse(S) ==
    IF S = {} THEN <<>>
    ELSE LET m == CHOOSE x \in S : \A y \in S : y <= x
         IN  <<m>> \o sorted_reverse(S \ {m})

\* A sort that leaves the bucket in the order the operations were recorded.
sort_by_key_unsorted(s, key) == s

\* list.sort(key=...): stable, ascending.
RECURSIVE sort_by_key(_, _)
sort_by_key(s, key) ==
    IF Len(s) <= 1 THEN s
    ELSE LET x == s[Len(s)]
             rest == sort_by_key(SubSeq(s, 1, Len(s) - 1), key)
             before == SelectSeq(rest, LAMBDA y : key[y] <= key[x])
             after == SelectSeq(rest, LAMBDA y : key[y] > key[x])
         IN  before \o <<x>> \o after

\* The concatenation of the buckets, highest depth first.
RECURSIVE in_depth_order(_, _, _)
in_depth_order(buckets, depth_keys, i) ==
    IF i > Len(depth_keys) THEN <<>>
    ELSE buckets[depth_keys[i]] \o in_depth_order(buckets, depth_keys, i + 1)

\* The check that every tensor a node needs is computable: the loop over the
\* nodes in decreasing depth and, inside it, over each node's input tensors.
\* `operation` is the local the loop over operations_depths.items() left bound.
RECURSIVE check_tensors(_, _, _, _, _)
check_tensors(node, ts, i, operation, st) ==
    IF i > Len(ts) \/ st.failed THEN st
    ELSE IF ts[i] \notin st.computable_tensors
         THEN [st EXCEPT !.failed = TRUE, !.tensor = ts[i], !.node = node]
    ELSE check_tensors(node, ts, i + 1, operation,
             [st EXCEPT !.operations_with_complete_input =
                            Append(@, opName[operation])])

RECURSIVE check_nodes(_, _, _, _)
check_nodes(ns, i, operation, st) ==
    IF i > Len(ns) \/ st.failed THEN st
    ELSE LET st1 == check_tensors(ns[i], nodeIn[ns[i]], 1, operation, st)
         IN  IF st1.failed THEN st1
             ELSE check_nodes(ns, i + 1, operation,
                      [st1 EXCEPT !.computable_tensors = @ \cup {ns[i]}])

\* A name check that compares only neighbours of the operations list.
has_duplicate_name_adjacent(operations) ==
    \E i \in 1..(Len(operations) - 1) :
        opName[operations[i]] = opName[operations[i + 1]]

\* The name-unicity check over the final operations list.
has_duplicate_name(operations) ==
    LET all_names == [i \in 1..Len(operations) |-> opName[operations[i]]]
    IN  \E i \in 1..Len(all_names) : Count(all_names, all_names[i]) # 1

map_graph(ins, outs) ==
    LET bm == build_map(outs)
        order == bm.nodes_in_decreasing_depth
        d1 == assign_depths(Reverse(order), 1,
                  [nodes_depths |-> EmptyDict, operations_depths |-> EmptyDict])
        d2 == unreached_inputs(ins, 1,
                  [operations_depths |-> d1.operations_depths,
                   operation_indices |-> bm.operation_indices,
                   nodes_depths |-> d1.nodes_depths,
                   network_nodes |->
                       {make_node_key(IdStr(nodeOp[n]),
                                      IndexOf(InboundNodes(nodeOp[n]), n) - 1)
                           : n \in Range(order)}])
        nodes_by_depth == by_depth(d2.nodes_depths)
        operations_by_depth0 == by_depth(d2.operations_depths)
        operations_by_depth ==
            [k \in DOMAIN operations_by_depth0 |->
                sort_by_key(operations_by_depth0[k], d2.operation_indices.val)]
        operations ==
            in_depth_order(operations_by_depth,
                           sorted_reverse(DOMAIN operations_by_depth), 1)
        last_operation ==
            IF d2.operations_depths.keys = <<>> THEN NoOp
            ELSE d2.operations_depths.keys[Len(d2.operations_depths.keys)]
        chk == check_nodes(
                   in_depth_order(nodes_by_depth,
                                  sorted_reverse(DOMAIN nodes_by_depth), 1),
                   1, last_operation,
                   [computable_tensors |-> Range(ins),
                    operations_with_complete_input |-> <<>>,
                    failed |-> FALSE, tensor |-> RootTensor, node |-> 0])
        duplicate == has_duplicate_name(operations)
        nothing == [error |-> "cycle",
                    nodes_in_decreasing_depth |-> <<>>,
                    operation_indices |-> EmptyDict,
                    nodes_depths |-> EmptyDict, operations_depths |-> EmptyDict,
                    network_nodes |-> {}, nodes_by_depth |-> <<>>,
                    operations |-> <<>>, operations_by_depth |-> <<>>,
                    operations_with_complete_input |-> <<>>,
                    tensor |-> bm.cycle_tensor, node |-> 0]
        mapped == [nothing EXCEPT
                    !.error = "none",
                    !.nodes_in_decreasing_depth = order,
                    !.operation_indices = d2.operation_indices,
                    !.nodes_depths = d2.nodes_depths,
                    !.operations_depths = d2.operations_depths,
                    !.network_nodes = d2.network_nodes,
                    !.nodes_by_depth = nodes_by_depth,
                    !.operations = operations,
                    !.operations_by_depth = operations_by_depth,
                    !.tensor = RootTensor]
    IN  IF bm.cycle THEN nothing
        ELSE IF chk.failed
             THEN [mapped EXCEPT
                      !.error = "disconnected",
                      !.operations_with_complete_input =
                          chk.operations_with_complete_input,
                      !.tensor = chk.tensor, !.node = chk.node]
        ELSE IF duplicate
             THEN [mapped EXCEPT
                      !.error = "duplicate_name",
                      !.operations_with_complete_input =
                          chk.operations_with_complete_input]
        ELSE [mapped EXCEPT
                 !.operations_with_complete_input =
                     chk.operations_with_complete_input]


\* -------------------------------------------------------------- operations
\* The value bound to a tensor during a replay: a concrete tensor (call) or a
\* KerasTensor (compute_output_spec).  val is a term that records which
\* operation was applied to which values; a KerasTensor holds no data.
NoData == [op |-> 0, args |-> <<>>]

Datum(k) == [op |-> 0 - k, args |-> <<>>]

\* The shape rule of an operation: odd operations keep the shape of their
\* first argument, even ones set its last dimension to 1.
OpOutShape(o, xs) ==
    LET shape == xs[1].shape
    IN  IF o % 2 = 1 \/ shape = <<>> THEN shape
        ELSE [shape EXCEPT ![Len(shape)] = 1]

\* operation.compute_output_spec(*args)
OpComputeOutputSpec(o, xs) ==
    [shape |-> OpOutShape(o, xs), dtype |-> xs[1].dtype, val |-> NoData]

\* operation(*args): the real computation.
OpCall(o, xs) ==
    [shape |-> OpOutShape(o, xs), dtype |-> xs[1].dtype,
     val |-> [op |-> o, args |-> [i \in 1..Len(xs) |-> xs[i].val]]]

\* The shape and dtype a tensor of the graph was created with: those of
\* srcSpec for a tensor no operation computed, and the operation's own
\* compute_output_spec of its inputs otherwise.
RECURSIVE ref_spec(_, _)
ref_spec(t, fuel) ==
    IF t = RootTensor \/ fuel = 0 THEN srcSpec[t]
    ELSE IF IsInput(t) THEN srcSpec[t]
    ELSE OpComputeOutputSpec(nodeOp[t],
             [i \in 1..Len(nodeIn[t]) |-> ref_spec(nodeIn[t][i], fuel - 1)])

RefSpec(t) == ref_spec(t, MaxNodes)

\* ---------------------------------------------------------------- Function
\* A dimension check that takes an unknown size for a size like any other.
RECURSIVE check_dims_strict(_, _, _)
check_dims_strict(shape, ref_shape, i) ==
    IF i > Len(shape) \/ i > Len(ref_shape) THEN "ok"
    ELSE IF shape[i] # ref_shape[i] THEN "shape"
    ELSE check_dims_strict(shape, ref_shape, i + 1)

\* _assert_input_compatibility: "ok", or the check that raised.
RECURSIVE check_dims(_, _, _)
check_dims(shape, ref_shape, i) ==
    IF i > Len(shape) \/ i > Len(ref_shape) THEN "ok"
    ELSE IF ref_shape[i] # None /\ shape[i] # None /\ shape[i] # ref_shape[i]
         THEN "shape"
    ELSE check_dims(shape, ref_shape, i + 1)

check_pair(x, x_ref) ==
    IF Len(x.shape) # Len(x_ref.shape) THEN "rank"
    ELSE check_dims(x.shape, x_ref.shape, 1)

RECURSIVE check_pairs(_, _, _)
check_pairs(xs, refs, i) ==
    IF i > Len(xs) \/ i > Len(refs) THEN "ok"
    ELSE IF check_pair(xs[i], RefSpec(refs[i])) # "ok"
         THEN check_pair(xs[i], RefSpec(refs[i]))
    ELSE check_pairs(xs, refs, i + 1)

assert_input_compatibility(xs) ==
    IF Len(xs) # Len(inputs) THEN "structure"
    ELSE check_pairs(xs, inputs, 1)

\* operation_fn(node.operation)(*args): operation_fn is "call" for
\* lambda op: op and "compute_output_spec" for lambda op: op.compute_output_spec.
apply_operation(operation_fn, o, xs) ==
    IF operation_fn = "call" THEN OpCall(o, xs) ELSE OpComputeOutputSpec(o, xs)

\* A loop body that invokes the operation and drops what it returns.
run_node_outputs_unbound(node, operation_fn, st) ==
    IF nodeOp[node] = NoOp \/ IsInput(node) THEN st
    ELSE IF \E i \in 1..Len(nodeIn[node]) : nodeIn[node][i] \notin DOMAIN st.tensor_dict
         THEN [st EXCEPT !.skipped = Append(@, node)]
    ELSE [st EXCEPT !.invoked = Append(@, <<node, operation_fn>>)]

\* One iteration of the loop over the nodes of a depth bucket.
run_node(node, operation_fn, st) ==
    IF nodeOp[node] = NoOp \/ IsInput(node) THEN st
    ELSE IF \E i \in 1..Len(nodeIn[node]) : nodeIn[node][i] \notin DOMAIN st.tensor_dict
         THEN [st EXCEPT !.skipped = Append(@, node)]
    ELSE LET xs == [i \in 1..Len(nodeIn[node]) |-> st.tensor_dict[nodeIn[node][i]]]
         IN  [st EXCEPT
                 !.tensor_dict =
                     (node :> apply_operation(operation_fn, nodeOp[node], xs)) @@ @,
                 !.invoked = Append(@, <<node, operation_fn>>)]

RECURSIVE run_nodes(_, _, _, _)
run_nodes(ns, i, operation_fn, st) ==
    IF i > Len(ns) THEN st
    ELSE run_nodes(ns, i + 1, operation_fn, run_node(ns[i], operation_fn, st))

NotRun == [status |-> "none", outputs |-> <<>>, invoked |-> <<>>,
           skipped |-> <<>>, shortcut |-> FALSE, tensor_dict |-> <<>>]

\* A replay that walks the depth buckets lowest depth first (depth_keys sorted
\* without reverse=True).
run_through_graph_ascending(xs, operation_fn) ==
    LET n == IF Len(xs) < Len(inputs) THEN Len(xs) ELSE Len(inputs)
        seeded == [t \in {inputs[i] : i \in 1..n} |->
                      xs[CHOOSE i \in 1..n :
                             inputs[i] = t /\ \A j \in (i + 1)..n : inputs[j] # t]]
        st == run_nodes(
                  in_depth_order(fn.nodes_by_depth,
                                 Reverse(sorted_reverse(DOMAIN fn.nodes_by_depth)), 1),
                  1, operation_fn,
                  [NotRun EXCEPT !.tensor_dict = seeded])
    IN  IF \E i \in 1..Len(outputs) : outputs[i] \notin DOMAIN st.tensor_dict
        THEN [st EXCEPT !.status = "unresolved"]
        ELSE [st EXCEPT !.status = "ok",
                        !.outputs = [i \in 1..Len(outputs) |->
                                        st.tensor_dict[outputs[i]]]]

\* _run_through_graph, on the analysis the Function stores.
run_through_graph(xs, operation_fn) ==
    LET n == IF Len(xs) < Len(inputs) THEN Len(xs) ELSE Len(inputs)
        seeded == [t \in {inputs[i] : i \in 1..n} |->
                      xs[CHOOSE i \in 1..n :
                             inputs[i] = t /\ \A j \in (i + 1)..n : inputs[j] # t]]
        st == run_nodes(
                  in_depth_order(fn.nodes_by_depth,
                                 sorted_reverse(DOMAIN fn.nodes_by_depth), 1),
                  1, operation_fn,
                  [NotRun EXCEPT !.tensor_dict = seeded])
    IN  IF \E i \in 1..Len(outputs) : outputs[i] \notin DOMAIN st.tensor_dict
        THEN [st EXCEPT !.status = "unresolved"]
        ELSE [st EXCEPT !.status = "ok",
                        !.outputs = [i \in 1..Len(outputs) |->
                                        st.tensor_dict[outputs[i]]]]

\* Function.call
call(xs) ==
    IF assert_input_compatibility(xs) # "ok"
    THEN [NotRun EXCEPT !.status = assert_input_compatibility(xs)]
    ELSE run_through_graph(xs, "call")

\* A compute_output_spec that replays the graph with the operations themselves.
compute_output_spec_computing(xs) ==
    IF assert_input_compatibility(xs) # "ok"
    THEN [NotRun EXCEPT !.status = assert_input_compatibility(xs)]
    ELSE IF \A i \in 1..Len(xs) : xs[i].shape = RefSpec(inputs[i]).shape
         THEN [NotRun EXCEPT
                  !.status = "ok", !.shortcut = TRUE,
                  !.outputs = [i \in 1..Len(outputs) |->
                                  [shape |-> RefSpec(outputs[i]).shape,
                                   dtype |-> RefSpec(outputs[i]).dtype,
                                   val |-> NoData]]]
    ELSE run_through_graph(xs, "call")

\* Function.compute_output_spec
compute_output_spec(xs) ==
    IF assert_input_compatibility(xs) # "ok"
    THEN [NotRun EXCEPT !.status = assert_input_compatibility(xs)]
    ELSE IF \A i \in 1..Len(xs) : xs[i].shape = RefSpec(inputs[i]).shape
         THEN [NotRun EXCEPT
                  !.status = "ok", !.shortcut = TRUE,
                  !.outputs = [i \in 1..Len(outputs) |->
                                  [shape |-> RefSpec(outputs[i]).shape,
                                   dtype |-> RefSpec(outputs[i]).dtype,
                                   val |-> NoData]]]
    ELSE run_through_graph(xs, "compute_output_spec")

\* _build_map a call of _build_map_helper at a time: the four collections, the
\* stack of the calls in progress (the node of each and the next of its input
\* tensors to descend into) and the next output to start from.
NoTraversal == [status |-> "idle", out |-> 1, stack |-> <<>>,
                finished_nodes |-> {}, nodes_in_progress |-> {},
                nodes_in_decreasing_depth |-> <<>>, operation_indices |-> EmptyDict]

\* _build_map_helper from its first line to the loop over node.input_tensors.
enter(tensor, d) ==
    IF HistoryOp(tensor) = NoOp THEN d
    ELSE
        LET operation == HistoryOp(tensor)
            node == InboundNodes(operation)[HistoryNodeIndex(tensor) + 1]
        IN  IF node \in d.finished_nodes THEN d
            ELSE IF node \in d.nodes_in_progress THEN [d EXCEPT !.status = "cycle"]
            ELSE [d EXCEPT
                     !.operation_indices =
                         IF DictHas(@, operation) THEN @
                         ELSE DictSet(@, operation, Len(@.keys)),
                     !.nodes_in_progress = @ \cup {node},
                     !.stack = Append(@, [node |-> node, i |-> 1])]

\* A helper that never gets past its loop.
leave_never(d) == d

\* _build_map_helper after the loop: the node is done and the call returns.
leave(d) ==
    LET node == d.stack[Len(d.stack)].node
    IN  [d EXCEPT
            !.finished_nodes = @ \cup {node},
            !.nodes_in_progress = @ \ {node},
            !.nodes_in_decreasing_depth = Append(@, node),
            !.stack = SubSeq(@, 1, Len(@) - 1)]

\* Two invocations of _run_through_graph on one Function, a node at a time.
Replays == 1..2

NoReplay == [status |-> "idle", operation_fn |-> "none", pos |-> 0,
             overlapped |-> FALSE, st |-> NotRun]

\* tensor_dict = {} followed by the loop that seeds it with the passed inputs.
seed_tensor_dict(xs) ==
    LET n == IF Len(xs) < Len(inputs) THEN Len(xs) ELSE Len(inputs)
    IN  [t \in {inputs[i] : i \in 1..n} |->
            xs[CHOOSE i \in 1..n :
                   inputs[i] = t /\ \A j \in (i + 1)..n : inputs[j] # t]]

\* The nodes in the order the two nested loops of a replay visit them.
replay_order ==
    in_depth_order(fn.nodes_by_depth, sorted_reverse(DOMAIN fn.nodes_by_depth), 1)

\* The two nested loops of invocation r have visited every node.
loops_exhausted(rs, r) == rs[r].pos > Len(replay_order)

\* Locals kept in one place for all the invocations.
locals_shared(rs, r) == rs[1].st

\* The locals of invocation r (tensor_dict and what the model logs with it).
locals(rs, r) == rs[r].st

NoFunction == [nodes |-> {}, nodes_by_depth |-> <<>>, operations |-> <<>>,
               operations_by_depth |-> <<>>]


\* ------------------------------------------------------- the graphs checked
Float32 == "float32"

DefaultSpec == [shape |-> <<None, 2>>, dtype |-> Float32, val |-> NoData]

Shapes == UNION {[1..r -> Dims] : r \in 0..MaxRank}

\* The sequences of at most two distinct tensors of S.
InputLists(S) ==
    {<<>>} \cup {<<a>> : a \in S}
        \cup {p \in S \X S : p[1] # p[2]}

\* The same, the two tensors in ascending order.
AscendingLists(S) ==
    {<<>>} \cup {<<a>> : a \in S}
        \cup {p \in S \X S : p[1] < p[2]}

\* The elements of a set of tensors, ascending.
RECURSIVE AscendingSeq(_)
AscendingSeq(S) ==
    IF S = {} THEN <<>>
    ELSE LET m == CHOOSE x \in S : \A y \in S : x <= y
         IN  <<m>> \o AscendingSeq(S \ {m})

\* The tensors the tensors of T are computed from, T included (backward closure).
RECURSIVE Ancestors(_, _)
Ancestors(T, ins) ==
    LET more == T \cup UNION {Range(ins[n]) : n \in T \ {RootTensor}}
    IN  IF more = T THEN T ELSE Ancestors(more, ins)

DistinctNames == [o \in Ops |-> CASE o = 1 -> "a" [] o = 2 -> "b" [] o = 3 -> "c"
                                  [] OTHER -> "d"]

\* What the caller passes for the declared inputs: tensors of the reference
\* shapes and dtypes that hold the data v[i].
MatchingArgs(ins, specOf, v) ==
    [i \in 1..Len(ins) |-> [specOf[ins[i]] EXCEPT !.val = Datum(v[i])]]


DefaultSpecs == [t \in Tensors |-> DefaultSpec]

Untouched ==
    /\ phase = "defined"
    /\ error = "none"
    /\ mg = map_graph(<<>>, <<>>)
    /\ fn = NoFunction
    /\ callRes = NotRun
    /\ specRes = NotRun
    /\ replay = [r \in Replays |-> NoReplay]
    /\ dfs = NoTraversal

\* The graphs come in three families.
\* "dag": acyclic graphs on all the nodes; node n reads the tensor of no
\* operation and the tensors of higher nodes; an operation may be applied at
\* several nodes, and the first and the third operation may have one name;
\* node 1 is an output; the declared inputs are the tensors no operation with
\* inputs computes (every source the outputs depend on), or else the tensors
\* node 1 reads (intermediate tensors among them).
\* "small": arbitrary graphs on nodes 1 and 2 (cycles included), with every
\* choice of declared inputs and outputs, and operations that share a name.
\* "shapes": one operation applied to one input, to two inputs, or to the
\* result of another operation, with every reference shape and dtype of the
\* first input, every shape and dtype passed for it, and with one argument
\* too many.
Families == {"dag", "small", "shapes"}

RECURSIVE DagInputLists(_)
DagInputLists(n) ==
    IF n > MaxNodes THEN {<<>>}
    ELSE {<<h>> \o t : h \in AscendingLists({RootTensor} \cup ((n + 1)..MaxNodes)),
                       t \in DagInputLists(n + 1)}

SmallShapes == UNION {[1..r -> Dims] : r \in 0..1}

ShapeGraphs ==
    {[n \in Nodes |-> IF n = 1 THEN <<0>> ELSE <<>>],
     [n \in Nodes |-> IF n = 1 THEN <<0, 2>> ELSE <<>>],
     [n \in Nodes |-> IF n = 1 THEN <<3>> ELSE IF n = 3 THEN <<0>> ELSE <<>>]}

\* The nodes the outputs do not depend on apply the first operation to nothing.
RestIsPlain(outs, ins, ops) ==
    \A n \in Nodes \ Ancestors(Range(outs), ins) : ins[n] = <<>> /\ ops[n] = 1

Init ==
    \E family \in Families :
        /\ nodeIn \in
               CASE family = "dag" -> DagInputLists(1)
                 [] family = "small" ->
                        {f \in [Nodes -> InputLists(0..2)] :
                            \A n \in Nodes : n > 2 => f[n] = <<>>}
                 [] OTHER -> ShapeGraphs
        /\ outputs \in
               CASE family = "dag" ->
                        {<<1>>} \cup {<<1, k>> : k \in 2..MaxNodes}
                                \cup {<<k, 1>> : k \in 2..MaxNodes}
                 [] family = "small" -> InputLists(0..2) \ {<<>>}
                 [] OTHER -> {<<1>>}
        /\ nodeOp \in
               CASE family = "dag" ->
                        {f \in [Nodes -> Ops] :
                            /\ \A n \in Nodes : \A o \in 1..(f[n] - 1) :
                                   \E m \in 1..(n - 1) : f[m] = o
                            /\ RestIsPlain(outputs, nodeIn, f)}
                 [] family = "small" ->
                        {f \in [Nodes -> 1..2] :
                            f[1] = 1 /\ \A n \in Nodes : n > 2 => f[n] = 1}
                 [] OTHER -> {[n \in Nodes |-> IF n = 1 THEN o ELSE 3] : o \in 1..2}
        /\ opName \in
               CASE family = "dag" /\ 3 \in Range(nodeOp) ->
                        {DistinctNames, [DistinctNames EXCEPT ![3] = "a"]}
                 [] family = "small" /\ nodeOp[2] = 2 ->
                        {DistinctNames, [DistinctNames EXCEPT ![2] = "a"]}
                 [] OTHER -> {DistinctNames}
        /\ inputs \in
               CASE family = "dag" ->
                        {AscendingSeq({t \in Ancestors(Range(outputs), nodeIn) :
                                          t = RootTensor \/ nodeIn[t] = <<>>}),
                         AscendingSeq(Range(nodeIn[1]))}
                 [] family = "small" -> {AscendingSeq(S) : S \in SUBSET (0..2)}
                 [] OTHER -> {IF nodeIn[1] = <<0, 2>> THEN <<0, 2>> ELSE <<0>>}
        /\ srcSpec \in
               CASE family = "shapes" ->
                        {[t \in Tensors |->
                             IF t = 0 THEN [shape |-> s0, dtype |-> d0, val |-> NoData]
                             ELSE IF t = 2
                                  THEN [shape |-> s2, dtype |-> Float32, val |-> NoData]
                             ELSE DefaultSpec] :
                           s0 \in Shapes, d0 \in Dtypes,
                           s2 \in IF Len(inputs) = 2 THEN SmallShapes ELSE {<<>>}}
                 [] OTHER -> {DefaultSpecs}
        /\ args \in
               CASE family = "shapes" ->
                        {[i \in 1..k |->
                             IF i = 1 THEN [shape |-> s0, dtype |-> d0, val |-> Datum(1)]
                             ELSE [shape |-> s2, dtype |-> Float32, val |-> Datum(2)]] :
                           s0 \in Shapes, d0 \in Dtypes,
                           s2 \in IF Len(inputs) = 2 THEN SmallShapes ELSE {<<>>},
                           k \in {Len(inputs), 2}}
                 [] OTHER ->
                        {MatchingArgs(inputs, [t \in Tensors |-> RefSpec(t)],
                                      [i \in 1..Len(inputs) |-> ((i - 1) % MaxVal) + 1])}
        /\ Untouched

\* ------------------------------------------------------------------ actions
\* Function.__init__: the analysis is stored only when map_graph returns.
Construct ==
    /\ phase = "defined"
    /\ mg' = map_graph(inputs, outputs)
    /\ error' = mg'.error
    /\ phase' = IF mg'.error = "none" THEN "constructed" ELSE "failed"
    /\ fn' = IF mg'.error = "none"
             THEN [nodes |-> mg'.network_nodes,
                   nodes_by_depth |-> mg'.nodes_by_depth,
                   operations |-> mg'.operations,
                   operations_by_depth |-> mg'.operations_by_depth]
             ELSE fn
    /\ UNCHANGED <<graphVars, callRes, specRes, replay, dfs>>

\* Function.call(args)
Call ==
    /\ phase = "constructed"
    /\ callRes' = call(args)
    /\ UNCHANGED <<graphVars, phase, error, mg, fn, specRes, replay, dfs>>

\* Function.compute_output_spec(args)
ComputeOutputSpec ==
    /\ phase = "constructed"
    /\ specRes' = compute_output_spec(args)
    /\ UNCHANGED <<graphVars, phase, error, mg, fn, callRes, replay, dfs>>

Next == Construct \/ Call \/ ComputeOutputSpec

Spec == Init /\ [][Next]_vars

\* What the caller of invocation r passes: the second caller passes other data.
ReplayArgs(r) ==
    IF r = 1 THEN args
    ELSE [i \in 1..Len(args) |-> [args[i] EXCEPT !.val = Datum(MaxVal + i)]]

\* _run_through_graph up to its first loop over the nodes.
StartReplay(r) ==
    /\ phase = "constructed"
    /\ replay[r].status = "idle"
    /\ \E operation_fn \in {"call", "compute_output_spec"} :
           replay' = [replay EXCEPT ![r] =
                         [status |-> "running", operation_fn |-> operation_fn,
                          pos |-> 1, overlapped |-> FALSE,
                          st |-> [NotRun EXCEPT
                                     !.tensor_dict = seed_tensor_dict(ReplayArgs(r))]]]
    /\ UNCHANGED <<graphVars, phase, error, mg, fn, callRes, specRes, dfs>>

\* One iteration of the loop over the nodes.
StepReplay(r) ==
    /\ replay[r].status = "running"
    /\ ~loops_exhausted(replay, r)
    /\ replay' = [replay EXCEPT
                     ![r].st = run_node(replay_order[replay[r].pos],
                                        replay[r].operation_fn, locals(replay, r)),
                     ![r].pos = @ + 1,
                     ![r].overlapped =
                         @ \/ \E q \in Replays \ {r} :
                                  /\ replay[q].status = "running"
                                  /\ replay[q].pos > 1
                                  /\ replay[q].pos <= Len(replay_order)]
    /\ UNCHANGED <<graphVars, phase, error, mg, fn, callRes, specRes, dfs>>

\* The lookup of the outputs after the loops.
FinishReplay(r) ==
    /\ replay[r].status = "running"
    /\ loops_exhausted(replay, r)
    /\ replay' = [replay EXCEPT
                     ![r].status =
                         IF \E i \in 1..Len(outputs) :
                                outputs[i] \notin DOMAIN replay[r].st.tensor_dict
                         THEN "unresolved" ELSE "ok",
                     ![r].st.outputs =
                         IF \E i \in 1..Len(outputs) :
                                outputs[i] \notin DOMAIN replay[r].st.tensor_dict
                         THEN <<>>
                         ELSE [i \in 1..Len(outputs) |->
                                  replay[r].st.tensor_dict[outputs[i]]]]
    /\ UNCHANGED <<graphVars, phase, error, mg, fn, callRes, specRes, dfs>>

\* Graphs a Function is meant for, with matching arguments.
InitReplays == Init /\ srcSpec = DefaultSpecs /\ Len(args) = Len(inputs) /\ Len(outputs) = 1

NextReplays ==
    \/ Construct
    \/ \E r \in Replays : StartReplay(r)
    \/ \E r \in Replays : StepReplay(r)
    \/ \E r \in Replays : FinishReplay(r)

SpecReplays == InitReplays /\ [][NextReplays]_vars

\* The interpreter runs what it has started: a constructor call returns or
\* raises, and a replay that can take its next step takes it.
\* Function.__init__ enters map_graph, which calls _build_map.
StartTraversal ==
    /\ phase = "defined"
    /\ dfs.status = "idle"
    /\ dfs' = [dfs EXCEPT !.status = "running"]
    /\ UNCHANGED <<graphVars, phase, error, mg, fn, callRes, specRes, replay>>

\* One step of the traversal: the next output, the next input tensor of the
\* node on top of the stack, or the return of the call on top of the stack.
StepTraversal ==
    /\ dfs.status = "running"
    /\ dfs' =
           IF dfs.stack = <<>>
           THEN IF dfs.out > Len(outputs) THEN [dfs EXCEPT !.status = "finished"]
                ELSE enter(outputs[dfs.out], [dfs EXCEPT !.out = @ + 1])
           ELSE LET top == dfs.stack[Len(dfs.stack)]
                IN  IF IsInput(top.node) \/ top.i > Len(nodeIn[top.node])
                    THEN leave(dfs)
                    ELSE enter(nodeIn[top.node][top.i],
                               [dfs EXCEPT !.stack[Len(dfs.stack)].i = @ + 1])
    /\ UNCHANGED <<graphVars, phase, error, mg, fn, callRes, specRes, replay>>

\* The rest of Function.__init__, once the traversal has returned or raised.
ConstructTraversed ==
    /\ dfs.status \in {"finished", "cycle"}
    /\ Construct

\* Graphs of one operation and one output, cyclic ones among them.
InitSteps ==
    InitReplays /\ outputs = <<1>> /\ \A n \in Nodes : nodeOp[n] = 1

NextSteps ==
    \/ StartTraversal
    \/ StepTraversal
    \/ ConstructTraversed
    \/ StartReplay(1)
    \/ StepReplay(1)
    \/ FinishReplay(1)

\* The interpreter runs what it has started: a traversal or a replay that can
\* take its next step takes it.
SpecSteps ==
    /\ InitSteps
    /\ [][NextSteps]_vars
    /\ WF_vars(StepTraversal)
    /\ WF_vars(StepReplay(1))
    /\ WF_vars(FinishReplay(1))


\* ------------------------------------------------- the graph, independently
\* What the claims say about a graph, stated on the graph itself and not on
\* what map_graph computed.
Reached == Ancestors(Range(outputs), nodeIn)

ReachedNodes == Reached \ {RootTensor}

\* The tensors no operation application with inputs computes.
IsSource(t) == t = RootTensor \/ nodeIn[t] = <<>>

\* A node is on a cycle when it is among the tensors its inputs are computed from.
OnCycle(n) == n \in Ancestors(Range(nodeIn[n]), nodeIn)

Acyclic == \A n \in ReachedNodes : ~OnCycle(n)

\* Every tensor the outputs are computed from that nothing computes is declared.
Connected == \A t \in Reached : IsSource(t) => t \in Range(inputs)

GraphOps == {nodeOp[n] : n \in (Reached \cup Range(inputs)) \ {RootTensor}}

UniqueNames == \A o1 \in GraphOps : \A o2 \in GraphOps : o1 # o2 => opName[o1] # opName[o2]

WellFormed == Acyclic /\ Connected /\ UniqueNames

\* The declared inputs and the passed ones agree in number, in rank and in
\* every dimension both know.
Compatible ==
    /\ Len(args) = Len(inputs)
    /\ \A i \in 1..Len(args) :
           /\ Len(args[i].shape) = Len(RefSpec(inputs[i]).shape)
           /\ \A k \in 1..Len(args[i].shape) :
                  \/ args[i].shape[k] = None
                  \/ RefSpec(inputs[i]).shape[k] = None
                  \/ args[i].shape[k] = RefSpec(inputs[i]).shape[k]

\* The operation applications the outputs are computed from.
Applications == {n \in ReachedNodes : ~IsSource(n)}

\* Every order of the applications in which each comes after the applications
\* that compute its inputs.
TopologicalOrders ==
    {s \in [1..Cardinality(Applications) -> Applications] :
        /\ \A i \in DOMAIN s : \A j \in DOMAIN s : i # j => s[i] # s[j]
        /\ \A i \in DOMAIN s : \A t \in Range(nodeIn[s[i]]) \cap Applications :
               \E j \in 1..(i - 1) : s[j] = t}

\* Manual evaluation: each application once, in the given order, on the values
\* bound so far, starting from the values passed for the declared inputs.
RECURSIVE Evaluate(_, _, _)
Evaluate(order, i, bound) ==
    IF i > Len(order) THEN bound
    ELSE Evaluate(order, i + 1,
             (order[i] :> OpCall(nodeOp[order[i]],
                                 [k \in 1..Len(nodeIn[order[i]]) |->
                                     bound[nodeIn[order[i]][k]]])) @@ bound)

PassedValues == [t \in Range(inputs) |-> args[IndexOf(inputs, t)]]

\* ------------------------------------------------------------------ claims
\* C1: on a well-formed graph (acyclic, every source the outputs depend on
\* declared, operation names unique) and compatible inputs, Function.call
\* returns, for each output, the value that evaluating every operation
\* application once yields, whatever topological order is taken.
C1_CallEqualsManualEvaluation ==
    (phase = "constructed" /\ callRes.status # "none" /\ WellFormed /\ Compatible)
        => /\ callRes.status = "ok"
           /\ \A order \in TopologicalOrders :
                  callRes.outputs =
                      [i \in 1..Len(outputs) |->
                          Evaluate(order, 1, PassedValues)[outputs[i]]]

\* A call on a well-formed graph that ran two applications, one feeding the other.
C1_Witness ==
    /\ phase = "constructed" /\ callRes.status = "ok" /\ WellFormed /\ Compatible
    /\ Len(callRes.invoked) >= 3
    /\ Cardinality(TopologicalOrders) >= 2
    /\ Len(outputs) = 2


\* The depth map_graph assigned to a node, and the one it recorded for an operation.
NodeDepth(n) == mg.nodes_depths.val[n]

OpDepth(o) == mg.operations_depths.val[o]

HasDepth(n) == n \in DOMAIN mg.nodes_depths.val

TraversedNodes == Range(mg.nodes_in_decreasing_depth)

SetMax(S) == CHOOSE d \in S : \A e \in S : e <= d

C3_CycleIsRefused ==
    (phase # "defined" /\ \E n \in ReachedNodes : OnCycle(n))
        => error = "cycle" /\ phase = "failed" /\ fn = NoFunction

\* A refused graph whose cycle runs through two nodes.
C3_Witness ==
    /\ phase = "failed" /\ error = "cycle"
    /\ \E n \in ReachedNodes : OnCycle(n) /\ n \notin Range(nodeIn[n])

\* C4: an acyclic graph with an output that no declared input leads to is
\* refused with the graph-disconnected error.
C4_NoPathIsDisconnected ==
    (/\ phase # "defined"
     /\ Acyclic
     /\ \E i \in 1..Len(outputs) :
            Ancestors({outputs[i]}, nodeIn) \cap Range(inputs) = {})
        => error = "disconnected"

\* C5: on a graph that is acyclic and passes the connectivity check, the
\* duplicate-name error is raised exactly when two distinct operations of the
\* final operations list have the same name.
C5_DuplicateNames ==
    (phase # "defined" /\ error \notin {"cycle", "disconnected"})
        => (error = "duplicate_name"
              <=> \E i \in 1..Len(mg.operations) : \E j \in 1..Len(mg.operations) :
                      /\ mg.operations[i] # mg.operations[j]
                      /\ opName[mg.operations[i]] = opName[mg.operations[j]])

\* A refusal for two operations of one name, neither computed from the other.
C5_Witness ==
    /\ phase = "failed" /\ error = "duplicate_name"
    /\ \E m \in ReachedNodes : \E n \in ReachedNodes :
           /\ nodeOp[m] # nodeOp[n] /\ opName[nodeOp[m]] = opName[nodeOp[n]]
           /\ m \notin Ancestors({n}, nodeIn) /\ n \notin Ancestors({m}, nodeIn)

\* The true depth of a node: the longest count of operation applications on a
\* path from the node to an output it feeds, 0 when nothing consumes it.
Consumers(n) == {m \in ReachedNodes : n \in Range(nodeIn[m])}

RECURSIVE TrueDepth(_)
TrueDepth(n) ==
    IF Consumers(n) = {} THEN 0
    ELSE 1 + SetMax({TrueDepth(m) : m \in Consumers(n)})

NodesOf(o) == {n \in ReachedNodes : nodeOp[n] = o}

InOneBucket(o) ==
    /\ Count(mg.operations, o) = 1
    /\ Cardinality({d \in DOMAIN mg.operations_by_depth :
                       SeqContains(mg.operations_by_depth[d], o)}) = 1
    /\ \A d \in DOMAIN mg.operations_by_depth :
           Count(mg.operations_by_depth[d], o) <= 1

\* C6 (as stated): an operation applied at exactly two nodes, of true depths
\* d1 < d2, is recorded at depth max(d1, d2), once.
C6_SharedDepthIsTrueMax ==
    phase = "constructed" =>
        \A o \in Ops :
            (Cardinality(NodesOf(o)) = 2
                 /\ Cardinality({TrueDepth(n) : n \in NodesOf(o)}) = 2)
                => /\ OpDepth(o) = SetMax({TrueDepth(n) : n \in NodesOf(o)})
                   /\ InOneBucket(o)

\* C6 (amended): the depth recorded for an operation is the greatest depth
\* assigned to a node it is applied at, which is at least the true depth of
\* each of these nodes; the operation occurs once in the operations list and
\* in one bucket.
C6_SharedDepthIsAssignedMax ==
    phase = "constructed" =>
        \A o \in DOMAIN mg.operations_depths.val :
            /\ OpDepth(o) = SetMax({NodeDepth(n) :
                                       n \in {m \in DOMAIN mg.nodes_depths.val :
                                                 nodeOp[m] = o}})
            /\ \A n \in NodesOf(o) : OpDepth(o) >= TrueDepth(n)
            /\ InOneBucket(o)

\* An operation applied at two nodes of different true depths and recorded
\* deeper than both.
C6_Witness ==
    /\ phase = "constructed"
    /\ \E o \in Ops :
           /\ Cardinality(NodesOf(o)) = 2
           /\ Cardinality({TrueDepth(n) : n \in NodesOf(o)}) = 2
           /\ OpDepth(o) > SetMax({TrueDepth(n) : n \in NodesOf(o)})


\* What _assert_input_compatibility has to find in the i-th pair.
RankMismatch(i) == Len(args[i].shape) # Len(RefSpec(inputs[i]).shape)

DimConflict(i) ==
    /\ ~RankMismatch(i)
    /\ \E k \in 1..Len(args[i].shape) :
           /\ args[i].shape[k] # None
           /\ RefSpec(inputs[i]).shape[k] # None
           /\ args[i].shape[k] # RefSpec(inputs[i]).shape[k]

BadPairs == {i \in 1..Len(args) : RankMismatch(i) \/ DimConflict(i)}

Checked(r) == phase = "constructed" /\ r.status # "none" /\ Len(args) = Len(inputs)

\* C7: for a structurally matching input, the compatibility check raises for
\* a pair of different ranks, raises for a pair of equal ranks with two known
\* sizes that differ at some position, and raises for no pair whose sizes are,
\* at every position, equal or not both known.
C7_InputCompatibility ==
    \A r \in {callRes, specRes} :
        Checked(r) =>
            IF BadPairs = {}
            THEN r.status \notin {"rank", "shape", "structure"}
            ELSE LET first == CHOOSE i \in BadPairs : \A j \in BadPairs : i <= j
                 IN  r.status = IF RankMismatch(first) THEN "rank" ELSE "shape"

\* A pair of rank two passes although one side does not know a size the other
\* knows, and the pair after it is refused for a size both know.
C7_Witness ==
    /\ Checked(specRes) /\ specRes.status = "shape"
    /\ Len(args) = 2 /\ BadPairs = {2}
    /\ Len(args[1].shape) = 2
    /\ \E k \in 1..2 : args[1].shape[k] # None /\ RefSpec(inputs[1]).shape[k] = None

\* C8: when every passed shape equals the reference shape, compute_output_spec
\* returns the shapes and dtypes the traversal of the graph returns.
C8_ShortcutEqualsTraversal ==
    (phase = "constructed" /\ specRes.status = "ok" /\ specRes.shortcut)
        => LET full == run_through_graph(args, "compute_output_spec")
           IN  /\ full.status = "ok"
               /\ \A i \in 1..Len(outputs) :
                      /\ full.outputs[i].shape = specRes.outputs[i].shape
                      /\ full.outputs[i].dtype = specRes.outputs[i].dtype

\* C9: compute_output_spec invokes the real function of no operation: nothing
\* at all on the shortcut path, compute_output_spec alone on the general path.
C9_SpecNeverComputes ==
    specRes.status # "none" =>
        /\ specRes.shortcut => specRes.invoked = <<>>
        /\ \A i \in 1..Len(specRes.invoked) :
               specRes.invoked[i][2] = "compute_output_spec"

\* The general path through two operation applications.
C9_Witness ==
    /\ specRes.status = "ok" /\ ~specRes.shortcut
    /\ Len(specRes.invoked) = 2

\* An input operation: an operation applied once, to no tensor.
InputOperation(o) ==
    /\ o # NoOp
    /\ Len(InboundNodes(o)) = 1
    /\ IsInput(InboundNodes(o)[1])

\* The declared inputs of input operations the backward traversal never reaches.
UnreachedInputs ==
    {t \in Range(inputs) :
        /\ InputOperation(HistoryOp(t))
        /\ HistoryOp(t) \notin {nodeOp[n] : n \in ReachedNodes}}

OthersNamedApart(o) == \A o2 \in GraphOps \ {o} : opName[o2] # opName[o]

\* C10: a declared input whose input operation the backward traversal never
\* reaches is registered at depth 0 (operation, node, node key, operations
\* list), and the graph is refused with it only if it is refused without it.
C10_UnreachedInputRegistered ==
    (phase # "defined" /\ error # "cycle") =>
        \A t \in UnreachedInputs :
            LET o == HistoryOp(t)
            IN  /\ DictHas(mg.operations_depths, o) /\ OpDepth(o) = 0
                /\ 0 \in DOMAIN mg.operations_by_depth
                /\ SeqContains(mg.operations_by_depth[0], o)
                /\ 0 \in DOMAIN mg.nodes_by_depth
                /\ SeqContains(mg.nodes_by_depth[0], t)
                /\ make_node_key(opName[o], 0) \in mg.network_nodes
                /\ SeqContains(mg.operations, o)
                /\ (error = "disconnected" => mg.node # t)
                /\ (OthersNamedApart(o) /\ error # "none")
                       => map_graph(SelectSeq(inputs, LAMBDA x : x # t),
                                    outputs).error # "none"

\* A Function built over an output computed from one declared input, with a
\* second declared input nothing uses.
C10_Witness ==
    /\ phase = "constructed"
    /\ UnreachedInputs # {}
    /\ \E n \in ReachedNodes : ~IsSource(n)
    /\ \E t \in UnreachedInputs : fn.operations_by_depth[0][1] = HistoryOp(t)


\* The index the traversal gave an operation (-1 for an unreached input's).
OpIndex(o) == mg.operation_indices.val[o]

\* C11: the operations list is sorted by non-increasing recorded depth, two
\* operations of one depth stand in ascending order of their traversal index
\* (strictly ascending when the traversal visited both), and the list is the
\* one map_graph computes again from the same inputs and outputs.
C11_OperationsOrder ==
    (phase # "defined" /\ error # "cycle") =>
        /\ \A i \in 1..Len(mg.operations) : \A j \in (i + 1)..Len(mg.operations) :
               LET a == mg.operations[i]
                   b == mg.operations[j]
               IN  /\ OpDepth(a) >= OpDepth(b)
                   /\ OpDepth(a) = OpDepth(b) => OpIndex(a) <= OpIndex(b)
                   /\ (OpDepth(a) = OpDepth(b) /\ OpIndex(a) >= 0) => OpIndex(a) < OpIndex(b)
        /\ mg.operations = map_graph(inputs, outputs).operations

\* Two operations of one depth that the sort had to exchange: the one listed
\* first was recorded in operations_depths after the other.
C11_Witness ==
    /\ phase = "constructed"
    /\ \E i \in 1..Len(fn.operations) : \E j \in (i + 1)..Len(fn.operations) :
           /\ OpDepth(fn.operations[i]) = OpDepth(fn.operations[j])
           /\ OpIndex(fn.operations[i]) >= 0
           /\ IndexOf(mg.operations_depths.keys, fn.operations[i])
                  > IndexOf(mg.operations_depths.keys, fn.operations[j])


\* C12: a replay changes nothing of what the Function stores (inputs, outputs,
\* nodes_by_depth, operations, operations_by_depth), and however the steps of
\* two replays with different data interleave, each ends with the outputs the
\* same replay returns when it runs alone.
C12_ReplaysIndependent ==
    /\ [](\A r \in Replays :
              replay[r].status \in {"ok", "unresolved"} =>
                  LET alone == run_through_graph(ReplayArgs(r), replay[r].operation_fn)
                  IN  /\ replay[r].status = alone.status
                      /\ replay[r].st.outputs = alone.outputs)
    /\ [][phase = "constructed" =>
              /\ fn' = fn
              /\ inputs' = inputs
              /\ outputs' = outputs]_vars

\* Two replays that took turns, both done, with different results.
C12_Witness ==
    /\ \A r \in Replays : replay[r].status = "ok" /\ replay[r].overlapped
    /\ \A r \in Replays : Len(replay[r].st.invoked) >= 2
    /\ replay[1].st.outputs # replay[2].st.outputs


\* C13: on a constructed Function, a call or a compute_output_spec whose
\* arguments pass the compatibility check finds every output in the value
\* mapping: the lookup of the outputs never fails.
C13_OutputsResolved ==
    phase = "constructed" =>
        \A r \in {callRes, specRes} : r.status # "unresolved"


\* The nodes in the order the computability check visits them.
ValidationOrder ==
    in_depth_order(mg.nodes_by_depth, sorted_reverse(DOMAIN mg.nodes_by_depth), 1)

\* k times the name of the operation of node n.
NameTimes(n, k) == [i \in 1..k |-> opName[nodeOp[n]]]

\* For every input tensor validated before the failing one, the name of the
\* operation of the node it belongs to, in validation order.
RECURSIVE ValidatedNames(_)
ValidatedNames(i) ==
    IF i > Len(ValidationOrder) THEN <<>>
    ELSE IF ValidationOrder[i] = mg.node
         THEN NameTimes(mg.node, IndexOf(nodeIn[mg.node], mg.tensor) - 1)
    ELSE NameTimes(ValidationOrder[i], Len(nodeIn[ValidationOrder[i]]))
             \o ValidatedNames(i + 1)

\* C14: the list of previously accessed operations the graph-disconnected
\* error carries holds the names of the operations of the nodes whose input
\* tensors were validated before the failing tensor, in validation order.
C14_AccessedOperations ==
    error = "disconnected" =>
        mg.operations_with_complete_input = ValidatedNames(1)


\* The replays that went through the graph.
Replayed == {r \in {callRes, specRes} : r.status \in {"ok", "unresolved"} /\ ~r.shortcut}

\* C15 as stated: on a constructed Function no replay takes the branch that
\* skips a node some input tensor of which is not in the value mapping.
C15_NeverSkips ==
    phase = "constructed" => \A r \in Replayed : r.skipped = <<>>

\* C15: on a constructed Function a replay skips a node only if the node is
\* computed from the output of an input node that is not a declared input;
\* when every input node among the stored nodes is declared, no node is skipped.
C15_SkipsOnlyBehindUndeclaredInputNode ==
    phase = "constructed" =>
        \A r \in Replayed : \A i \in 1..Len(r.skipped) :
            \E m \in Ancestors(Range(nodeIn[r.skipped[i]]), nodeIn) \ {RootTensor} :
                IsInput(m) /\ m \notin Range(inputs)

\* A declared input that is the output of an operation applied to an undeclared
\* input node's output: the producing node is skipped and the call succeeds.
C15_Witness ==
    /\ phase = "constructed"
    /\ callRes.status = "ok"
    /\ callRes.skipped # <<>>
    /\ callRes.invoked # <<>>
    /\ \A i \in 1..Len(callRes.skipped) : callRes.skipped[i] \in Range(inputs)


\* The place of a node in the list the traversal produced.
Place(n) == IndexOf(mg.nodes_in_decreasing_depth, n)

\* The nodes that produce the input tensors of node n.
Producers(n) == Range(nodeIn[n]) \ {RootTensor}

\* C16 as stated: in the list the traversal produces, every node stands before
\* the nodes that produce its input tensors.
C16_NodeBeforeItsProducers ==
    (phase # "defined" /\ error # "cycle") =>
        \A n \in Range(mg.nodes_in_decreasing_depth) : \A m \in Producers(n) :
            /\ m \in Range(mg.nodes_in_decreasing_depth)
            /\ Place(n) < Place(m)

\* C16: in the list the traversal produces, every node stands after the nodes
\* that produce its input tensors (the list runs from the inputs to the
\* outputs, its reverse from the outputs to the inputs), each node once.
C16_NodeAfterItsProducers ==
    (phase # "defined" /\ error # "cycle") =>
        /\ \A n \in Range(mg.nodes_in_decreasing_depth) : \A m \in Producers(n) :
               /\ m \in Range(mg.nodes_in_decreasing_depth)
               /\ Place(m) < Place(n)
        /\ \A n \in Range(mg.nodes_in_decreasing_depth) :
               Count(mg.nodes_in_decreasing_depth, n) = 1

\* A node with two producers, one of which reads the other.
C16_Witness ==
    /\ phase = "constructed"
    /\ \E n \in Range(mg.nodes_in_decreasing_depth) :
           \E m \in Producers(n) : \E k \in Producers(n) \cap Producers(m) :
               Place(k) < Place(m) /\ Place(m) < Place(n)


\* The depth the consumers of a node ask of it.
ConsumerDepth(n) ==
    IF Consumers(n) = {} THEN 0
    ELSE 1 + SetMax({NodeDepth(m) : m \in Consumers(n)})

\* The nodes of the operation of n that the depth loop handles before n.
SameOperationBefore(n) ==
    {m \in TraversedNodes : m # n /\ nodeOp[m] = nodeOp[n] /\ Place(m) > Place(n)}

\* C17 as stated: after map_graph succeeds, the depth of every node is 0 when
\* no node consumes its output and else 1 + the greatest depth of its
\* consumers, also for the nodes of an operation applied more than once.
C17_DepthIsConsumerDepth ==
    phase = "constructed" =>
        \A n \in TraversedNodes : NodeDepth(n) = ConsumerDepth(n)

\* C17: after map_graph succeeds, the depth of every traversed node is the
\* greatest of the depth its consumers ask of it (0 without consumers, else
\* 1 + their greatest depth) and the depths of the nodes of the same
\* operation handled before it; it is the consumers' depth alone for the
\* node of an operation applied once.
C17_DepthIsConsumerOrOperationDepth ==
    phase = "constructed" =>
        \A n \in TraversedNodes :
            NodeDepth(n) = SetMax({ConsumerDepth(n)}
                                     \cup {NodeDepth(m) : m \in SameOperationBefore(n)})

\* A node nothing consumes that sits above depth 0 because its operation was
\* recorded deeper, and a node with two consumers of different depths.
C17_Witness ==
    /\ phase = "constructed"
    /\ \E n \in TraversedNodes : Consumers(n) = {} /\ NodeDepth(n) > 0
    /\ \E n \in TraversedNodes :
           Cardinality({NodeDepth(m) : m \in Consumers(n)}) >= 2


\* What a replay has visited so far: every node before its position, once.
VisitedOnce(r) ==
    /\ replay[r].pos <= Len(replay_order) + 1
    /\ \A n \in Nodes :
           Count(replay[r].st.skipped, n)
               + Count(replay[r].st.invoked, <<n, replay[r].operation_fn>>) <= 1
    /\ replay[r].status \in {"ok", "unresolved"} => replay[r].pos = Len(replay_order) + 1

\* C18: construction ends, for cyclic graphs too: the traversal, once started,
\* ends having finished every node the outputs depend on or raised the cycle
\* error, and map_graph ends with a stored analysis or with one of the three
\* errors; every replay on a constructed Function ends, with a result or the
\* error of the output lookup, having visited every node of every depth
\* bucket once.
C18_Terminates ==
    /\ (dfs.status = "running") ~> (dfs.status \in {"finished", "cycle"})
    /\ [](dfs.status = "finished" =>
              /\ dfs.finished_nodes = ReachedNodes
              /\ dfs.stack = <<>> /\ dfs.nodes_in_progress = {})
    /\ [](dfs.status = "cycle" => ~Acyclic)
    /\ [](phase # "defined" =>
              /\ error \in {"none", "cycle", "disconnected", "duplicate_name"}
              /\ (phase = "constructed") <=> (error = "none")
              /\ (phase = "failed") <=> (error # "none")
              /\ (error = "cycle") <=> (dfs.status = "cycle")
              /\ error # "cycle" =>
                     mg.nodes_in_decreasing_depth = dfs.nodes_in_decreasing_depth
              /\ error # "none" => fn = NoFunction)
    /\ (replay[1].status = "running") ~> (replay[1].status \in {"ok", "unresolved"})
    /\ []VisitedOnce(1)

\* A cycle through two nodes: the traversal stopped two calls deep and the
\* constructor raised the cycle error.
C18_Witness ==
    /\ phase = "failed" /\ error = "cycle"
    /\ dfs.status = "cycle"
    /\ Len(dfs.stack) >= 2
    /\ \E n \in ReachedNodes : OnCycle(n) /\ n \notin Range(nodeIn[n])

\* C19 as stated: when a replay has ended, every declared input tensor still
\* maps to the value the caller passed for it, a declared input that is the
\* output of a node computable from the other declared inputs included.
C19_DeclaredInputsKeepValue ==
    phase = "constructed" =>
        \A r \in Replayed : \A t \in DOMAIN seed_tensor_dict(args) :
            r.tensor_dict[t] = seed_tensor_dict(args)[t]

\* How often node n stands in the depth buckets S of nodes_by_depth.
RECURSIVE Occurrences(_, _)
Occurrences(S, n) ==
    IF S = {} THEN 0
    ELSE LET depth == CHOOSE d \in S : TRUE
         IN  Count(fn.nodes_by_depth[depth], n) + Occurrences(S \ {depth}, n)

\* Every declared input is a root input: a tensor without producing operation
\* or the output of an input node.
DeclaredInputsAreRoots ==
    \A i \in 1..Len(inputs) : inputs[i] = RootTensor \/ IsInput(inputs[i])

\* C20 as stated: after map_graph succeeds every node the outputs depend on
\* stands in exactly one depth bucket, once; a replay invokes the per-operation
\* function at most once per node, and when the declared inputs are all root
\* inputs exactly once for every node that is not an input node.
C20_EachNodeOnce ==
    phase = "constructed" =>
        /\ \A n \in ReachedNodes : Occurrences(DOMAIN fn.nodes_by_depth, n) = 1
        /\ \A r \in Replayed : \A n \in Nodes :
               LET times == Cardinality({i \in 1..Len(r.invoked) : r.invoked[i][1] = n})
               IN  /\ times <= 1
                   /\ DeclaredInputsAreRoots /\ n \in ReachedNodes /\ ~IsInput(n)
                          => times = 1

=============================================================================
